---- MODULE Spec2Model ----
(***************************************************************************)
(* chrF scoring of sacrebleu (sacrebleu/metrics/chrf.py, helpers.py):      *)
(* character n-gram extraction, per-sentence statistics, the corpus walk   *)
(* that pools them, and the F-beta scorer.                                 *)
(*                                                                         *)
(* A text line is a sequence of one-character strings.  A Python float is  *)
(* an exact rational <<num, den>> in lowest terms with den > 0.  A Counter *)
(* is a function from its keys to their positive counts.                   *)
(***************************************************************************)
EXTENDS Integers, Sequences, FiniteSets, TLC

\* ------------------------------------------------------------------ bounds
MaxLen == 2
MaxOrder == 3
MaxBeta == 2
MaxSent == 2
MaxStat == 2

\* ----------------------------------------------------------- program constants
ORDER == 6
BETA == 2

\* ------------------------------------------------------------- text values
Alphabet == {"a", "b", " "}
WhitespaceChars == {" "}

RECURSIVE StringsOfLen(_)
StringsOfLen(n) ==
    IF n = 0 THEN {<<>>}
    ELSE {Append(s, c) : s \in StringsOfLen(n - 1), c \in Alphabet}

StringsUpTo(n) == UNION {StringsOfLen(k) : k \in 0..n}

Strings == StringsUpTo(MaxLen)

\* --------------------------------------------------------- float arithmetic
RECURSIVE GCD(_, _)
GCD(a, b) == IF b = 0 THEN a ELSE GCD(b, a % b)

Abs(x) == IF x < 0 THEN -x ELSE x

\* n/d in lowest terms, d # 0.
Frac(n, d) ==
    LET g == GCD(Abs(n), Abs(d))
        s == IF d < 0 THEN -1 ELSE 1
    IN  <<(s * n) \div g, (s * d) \div g>>

Zero == <<0, 1>>
One == <<1, 1>>
Half == <<1, 2>>
FAdd(x, y) == Frac(x[1] * y[2] + y[1] * x[2], x[2] * y[2])
FMul(x, y) == Frac(x[1] * y[1], x[2] * y[2])
FDiv(x, y) == Frac(x[1] * y[2], x[2] * y[1])
FLess(x, y) == x[1] * y[2] < y[1] * x[2]

\* ------------------------------------------------------------------ Counter
RECURSIVE SumOver(_, _)
SumOver(f, keys) ==
    IF keys = {} THEN 0
    ELSE LET k == CHOOSE x \in keys : TRUE
         IN  f[k] + SumOver(f, keys \ {k})

\* sum(counter.values())
CounterTotal(counter) == SumOver(counter, DOMAIN counter)

Min(a, b) == IF a < b THEN a ELSE b

\* Counter.__and__ with every common key counted once: a set intersection.
CounterAndAsSet(c1, c2) ==
    [g \in (DOMAIN c1) \cap (DOMAIN c2) |-> 1]

\* Counter.__or__ in the place of Counter.__and__: the maximum of the two
\* counts, for the keys of either.
CounterOr(c1, c2) ==
    [g \in (DOMAIN c1) \cup (DOMAIN c2) |->
        IF g \notin DOMAIN c1 THEN c2[g]
        ELSE IF g \notin DOMAIN c2 THEN c1[g]
        ELSE IF c1[g] < c2[g] THEN c2[g] ELSE c1[g]]

\* Counter.__and__: the minimum of the two counts, for the keys of both.
CounterAnd(c1, c2) ==
    [g \in (DOMAIN c1) \cap (DOMAIN c2) |-> Min(c1[g], c2[g])]

\* Counter([line[i:i + n] for i in range(len(line) - n + 1)]) that raises on a
\* line shorter than n instead of yielding the empty Counter.
extract_char_ngrams_strict(line, n) ==
    LET starts == 1..(Len(line) - n + 1)
        grams == {SubSeq(line, i, i + n - 1) : i \in starts}
    IN  IF Len(line) < n THEN [g \in {<<>>} |-> 1]
        ELSE [g \in grams |->
                Cardinality({i \in starts : SubSeq(line, i, i + n - 1) = g})]

\* Counter([line[i:i + n] for i in range(len(line) - n + 1)])
extract_char_ngrams(line, n) ==
    LET starts == 1..(Len(line) - n + 1)
        grams == {SubSeq(line, i, i + n - 1) : i \in starts}
    IN  [g \in grams |->
            Cardinality({i \in starts : SubSeq(line, i, i + n - 1) = g})]

\* ---------------------------------------------------------------- tokenizers
\* BaseTokenizer: the line as it is.
BaseTokenizer(line) == line

\* TokenizerChrf: the line with its whitespace removed.
TokenizerChrf(line) == SelectSeq(line, LAMBDA c : c \notin WhitespaceChars)

\* self.tokenizer(line), the tokenizer __init__ chose from self.whitespace.
tokenizer(slf, line) ==
    IF slf.tokenizer = "BaseTokenizer" THEN BaseTokenizer(line)
    ELSE TokenizerChrf(line)

\* ------------------------------------------------------------------- betas
\* A beta is an int or a float; both carry the value num/den.
IntBeta(n) == [isint |-> TRUE, num |-> n, den |-> 1]
FloatBeta(n, d) == [isint |-> FALSE, num |-> n, den |-> d]
IntBetas == {IntBeta(n) : n \in 1..MaxBeta}
FloatBetas == {FloatBeta(1, 2)}
Betas == IntBetas \cup FloatBetas
BetaValue(beta) == Frac(beta.num, beta.den)

\* ------------------------------------------------------------------ scores
NoScore == <<>>

\* What a call hands back: a CHRFScore, or the exception it raised.
Returned(score, beta, order) ==
    [exc |-> "none", score |-> score, beta |-> beta, order |-> order]
Raised(exc) ==
    [exc |-> exc, score |-> NoScore, beta |-> NoScore, order |-> 0]
Pending == Raised("pending")

\* CHRFScore.__init__: 'chrF{0:d}'.format(self.beta) raises ValueError for a
\* beta that is not an int.
CHRFScore(score, beta, order) ==
    IF beta.isint THEN Returned(score, beta, order) ELSE Raised("ValueError")

\* ---------------------------------------------------------------- compute_chrf
\* The loop of compute_chrf over range(order): the sums of the per-order
\* precisions and recalls and the number of effective orders, after i orders.
RECURSIVE OrderLoop(_, _)
OrderLoop(statistics, i) ==
    IF i = 0 THEN [avg_precision |-> Zero, avg_recall |-> Zero, effective_order |-> 0]
    ELSE LET acc == OrderLoop(statistics, i - 1)
             hypotheses_ngrams == statistics[3 * (i - 1) + 1]
             references_ngrams == statistics[3 * (i - 1) + 2]
             common_ngrams == statistics[3 * (i - 1) + 3]
         IN  IF hypotheses_ngrams > 0 /\ references_ngrams > 0
             THEN [avg_precision |->
                       FAdd(acc.avg_precision, Frac(common_ngrams, hypotheses_ngrams)),
                   avg_recall |->
                       FAdd(acc.avg_recall, Frac(common_ngrams, references_ngrams)),
                   effective_order |-> acc.effective_order + 1]
             ELSE acc

\* The averages divided by the number of orders asked for, not by the number of
\* effective orders.
AveragesOverAllOrders(statistics, order) ==
    LET acc == OrderLoop(statistics, order)
    IN  IF order = 0
        THEN [avg_precision |-> Zero, avg_recall |-> Zero, effective_order |-> 0]
        ELSE [avg_precision |-> FDiv(acc.avg_precision, <<order, 1>>),
              avg_recall |-> FDiv(acc.avg_recall, <<order, 1>>),
              effective_order |-> acc.effective_order]

\* avg_precision, avg_recall and effective_order after lines 85-103.
Averages(statistics, order) ==
    LET acc == OrderLoop(statistics, order)
    IN  IF acc.effective_order = 0
        THEN [avg_precision |-> Zero, avg_recall |-> Zero, effective_order |-> 0]
        ELSE [avg_precision |-> FDiv(acc.avg_precision, <<acc.effective_order, 1>>),
              avg_recall |-> FDiv(acc.avg_recall, <<acc.effective_order, 1>>),
              effective_order |-> acc.effective_order]

\* The F-beta combination with the weight on the wrong side.
CombineSwapped(avg_precision, avg_recall, beta) ==
    IF FAdd(avg_precision, avg_recall) = Zero THEN Zero
    ELSE LET beta_square == FMul(BetaValue(beta), BetaValue(beta))
         IN  FDiv(FMul(FAdd(One, beta_square), FMul(avg_precision, avg_recall)),
                  FAdd(avg_precision, FMul(beta_square, avg_recall)))

\* score after lines 105-110.
Combine(avg_precision, avg_recall, beta) ==
    IF FAdd(avg_precision, avg_recall) = Zero THEN Zero
    ELSE LET beta_square == FMul(BetaValue(beta), BetaValue(beta))
         IN  FDiv(FMul(FAdd(One, beta_square), FMul(avg_precision, avg_recall)),
                  FAdd(FMul(beta_square, avg_precision), avg_recall))

\* The locals of compute_chrf when it leaves.
ChrfLocals(statistics, order, beta) ==
    LET avg == Averages(statistics, order)
    IN  [avg_precision |-> avg.avg_precision,
         avg_recall |-> avg.avg_recall,
         effective_order |-> avg.effective_order,
         score |-> Combine(avg.avg_precision, avg.avg_recall, beta)]

compute_chrf(statistics, order, beta) ==
    CHRFScore(ChrfLocals(statistics, order, beta).score, beta, order)

\* ------------------------------------------------------ get_sentence_statistics
ZeroStatistics(order) == [k \in 1..(3 * order) |-> 0]

\* The statistics of one tokenized pair: per order the triplet
\* (hypothesis n-grams, reference n-grams, common n-grams).
PairStatistics(hyp, ref, order) ==
    [k \in 1..(3 * order) |->
        LET n == ((k - 1) \div 3) + 1
            hypothesis_ngrams == extract_char_ngrams(hyp, n)
            reference_ngrams == extract_char_ngrams(ref, n)
            common_ngrams == CounterAnd(hypothesis_ngrams, reference_ngrams)
        IN  CASE (k - 1) % 3 = 0 -> CounterTotal(hypothesis_ngrams)
              [] (k - 1) % 3 = 1 -> CounterTotal(reference_ngrams)
              [] OTHER -> CounterTotal(common_ngrams)]

\* get_sentence_statistics reading the last reference instead of the first.
get_sentence_statistics_last(slf, hyp, refs) ==
    PairStatistics(tokenizer(slf, hyp), tokenizer(slf, refs[Len(refs)]), slf.order)

get_sentence_statistics(slf, hyp, refs) ==
    PairStatistics(tokenizer(slf, hyp), tokenizer(slf, refs[1]), slf.order)

\* ------------------------------------------------------------------ __init__
\* CHRF.__init__: the attributes of the instance, the tokenizer chosen from
\* whitespace.
CHRF(whitespace, order, beta, lowercase, num_refs) ==
    [name |-> "chrf",
     beta |-> beta,
     order |-> order,
     num_refs |-> num_refs,
     lowercase |-> lowercase,
     whitespace |-> whitespace,
     tokenizer |-> IF whitespace THEN "BaseTokenizer" ELSE "TokenizerChrf"]

\* -------------------------------------------------------------- arguments
\* An argument that may be a bare str or a list (Union[str, ...]).
StrArg(s) == [kind |-> "str", str |-> s, list |-> <<>>]
ListArg(l) == [kind |-> "list", str |-> <<>>, list |-> l]

RECURSIVE SeqsOfLen(_, _)
SeqsOfLen(S, n) ==
    IF n = 0 THEN {<<>>}
    ELSE {Append(q, x) : q \in SeqsOfLen(S, n - 1), x \in S}

SeqsUpTo(S, n) == UNION {SeqsOfLen(S, k) : k \in 0..n}

\* ------------------------------------------------------------------- state
Tasks == {1, 2}

VARIABLES
    self,               \* the CHRF instance the calls share
    op,                 \* per call: the method called
    pc,                 \* per call: "idle", "call", "loop", "returned", "raised"
    hypothesis,         \* sentence_score's hypothesis
    references,         \* sentence_score's references
    sys_stream,         \* corpus_score's sys_stream
    ref_streams,        \* corpus_score's ref_streams
    idx,                \* tuples zip_longest has yielded so far
    corpus_statistics,  \* corpus_score's running vector
    statistics,         \* the last vector get_sentence_statistics returned,
                        \* or compute_chrf's statistics argument
    chrf_args,          \* the order and beta compute_chrf was called with
    locals,             \* compute_chrf's locals when it left
    result              \* what the call handed back

vars == <<self, op, pc, hypothesis, references, sys_stream, ref_streams, idx,
          corpus_statistics, statistics, chrf_args, locals, result>>

NoArgs == [order |-> 0, beta |-> IntBeta(BETA)]
NoLocals == [avg_precision |-> Zero, avg_recall |-> Zero,
             effective_order |-> 0, score |-> Zero]

\* fhs = [sys_stream] + ref_streams
fhs(t) == <<sys_stream[t].list>> \o ref_streams[t].list

\* The streams zip_longest finds exhausted at its next tuple.
Exhausted(t) == {k \in 1..Len(fhs(t)) : Len(fhs(t)[k]) <= idx[t]}

\* The next tuple of zip_longest when no stream is exhausted.
Lines(t) == [k \in 1..Len(fhs(t)) |-> fhs(t)[k][idx[t] + 1]]

\* hypothesis, *refs = lines
Refs(lines) == SubSeq(lines, 2, Len(lines))

\* Lines 173-174 overwriting the running vector instead of adding to it.
AddStatisticsOverwrite(corpus, sentence) ==
    [i \in 1..Len(sentence) |-> sentence[i]]

\* Lines 173-174: corpus_statistics[i] += statistics[i]
AddStatistics(corpus, sentence) ==
    [i \in 1..Len(corpus) |->
        IF i <= Len(sentence) THEN corpus[i] + sentence[i] ELSE corpus[i]]

\* zip in the place of zip_longest: the walk ends at the shortest stream.
StopAtShortest(t) == Exhausted(t) # {}

\* zip_longest(*fhs) is exhausted: every stream is.
StopIteration(t) == Exhausted(t) = 1..Len(fhs(t))

\* The running vector kept on the shared instance instead of in the call.
AccumulatorOnInstance(t) == 1

\* The object the name corpus_statistics is bound to in call t: a local of
\* the call, made anew at line 162.
Accumulator(t) == t

\* zip_longest yields a tuple with a None in it: some stream is exhausted and
\* another is not.
Mismatch(t) == Exhausted(t) # {} /\ Exhausted(t) # 1..Len(fhs(t))

\* ----------------------------------------------------------------- actions
\* sentence_score, lines 140-143.
sentence_score(t) ==
    /\ pc[t] = "call"
    /\ op[t] = "sentence_score"
    /\ IF references[t].kind = "str"
       THEN /\ result' = [result EXCEPT ![t] = Raised("AssertionError")]
            /\ pc' = [pc EXCEPT ![t] = "raised"]
            /\ UNCHANGED <<statistics, chrf_args, locals>>
       ELSE LET stats == get_sentence_statistics(self, hypothesis[t], references[t].list)
                out == compute_chrf(stats, self.order, self.beta)
            IN  /\ statistics' = [statistics EXCEPT ![t] = stats]
                /\ chrf_args' = [chrf_args EXCEPT ![t] =
                                    [order |-> self.order, beta |-> self.beta]]
                /\ locals' = [locals EXCEPT ![t] =
                                 ChrfLocals(stats, self.order, self.beta)]
                /\ result' = [result EXCEPT ![t] = out]
                /\ pc' = [pc EXCEPT ![t] =
                             IF out.exc = "none" THEN "returned" ELSE "raised"]
    /\ UNCHANGED <<self, op, hypothesis, references, sys_stream, ref_streams,
                   idx, corpus_statistics>>

\* corpus_score, lines 156-164: a bare str becomes a one-element stream, the
\* running vector starts at zero.
corpus_score_begin(t) ==
    /\ pc[t] = "call"
    /\ op[t] = "corpus_score"
    /\ sys_stream' = [sys_stream EXCEPT ![t] =
          IF @.kind = "str" THEN ListArg(<<@.str>>) ELSE @]
    /\ ref_streams' = [ref_streams EXCEPT ![t] =
          IF @.kind = "str" THEN ListArg(<<<<@.str>>>>) ELSE @]
    /\ corpus_statistics' = [corpus_statistics EXCEPT
                                ![Accumulator(t)] = ZeroStatistics(self.order)]
    /\ idx' = [idx EXCEPT ![t] = 0]
    /\ pc' = [pc EXCEPT ![t] = "loop"]
    /\ UNCHANGED <<self, op, hypothesis, references, statistics, chrf_args,
                   locals, result>>

\* corpus_score, lines 165-167: a tuple with a None in it.
corpus_score_raise(t) ==
    /\ pc[t] = "loop"
    /\ Mismatch(t)
    /\ result' = [result EXCEPT ![t] = Raised("EOFError")]
    /\ pc' = [pc EXCEPT ![t] = "raised"]
    /\ UNCHANGED <<self, op, hypothesis, references, sys_stream, ref_streams,
                   idx, corpus_statistics, statistics, chrf_args, locals>>

\* corpus_score, lines 165-174: a full tuple, its statistics added.
corpus_score_next(t) ==
    /\ pc[t] = "loop"
    /\ Exhausted(t) = {}
    /\ LET lines == Lines(t)
           stats == get_sentence_statistics(self, lines[1], Refs(lines))
       IN  /\ statistics' = [statistics EXCEPT ![t] = stats]
           /\ corpus_statistics' = [corpus_statistics EXCEPT
                                       ![Accumulator(t)] = AddStatistics(@, stats)]
    /\ idx' = [idx EXCEPT ![t] = @ + 1]
    /\ UNCHANGED <<self, op, pc, hypothesis, references, sys_stream,
                   ref_streams, chrf_args, locals, result>>

\* corpus_score, line 176: every stream is exhausted, the pooled vector is
\* scored.
corpus_score_return(t) ==
    /\ pc[t] = "loop"
    /\ StopIteration(t)
    /\ LET out == compute_chrf(corpus_statistics[Accumulator(t)], self.order, self.beta)
       IN  /\ result' = [result EXCEPT ![t] = out]
           /\ pc' = [pc EXCEPT ![t] =
                        IF out.exc = "none" THEN "returned" ELSE "raised"]
    /\ chrf_args' = [chrf_args EXCEPT ![t] =
                        [order |-> self.order, beta |-> self.beta]]
    /\ locals' = [locals EXCEPT ![t] =
                     ChrfLocals(corpus_statistics[Accumulator(t)], self.order, self.beta)]
    /\ UNCHANGED <<self, op, hypothesis, references, sys_stream, ref_streams,
                   idx, corpus_statistics, statistics>>

\* CHRF.compute_chrf called directly (a static method), lines 85-112.
compute_chrf_call(t) ==
    /\ pc[t] = "call"
    /\ op[t] = "compute_chrf"
    /\ LET out == compute_chrf(statistics[t], chrf_args[t].order, chrf_args[t].beta)
       IN  /\ result' = [result EXCEPT ![t] = out]
           /\ pc' = [pc EXCEPT ![t] =
                        IF out.exc = "none" THEN "returned" ELSE "raised"]
    /\ locals' = [locals EXCEPT ![t] =
                     ChrfLocals(statistics[t], chrf_args[t].order, chrf_args[t].beta)]
    /\ UNCHANGED <<self, op, hypothesis, references, sys_stream, ref_streams,
                   idx, corpus_statistics, statistics, chrf_args>>

\* ------------------------------------------------------------ configurations
Orders == 1..MaxOrder
Configs == {CHRF(w, o, b, FALSE, 1) : w \in BOOLEAN, o \in Orders, b \in Betas}

\* A call that was never made.
IdleSentence ==
    /\ hypothesis = [t \in Tasks |-> <<>>]
    /\ references = [t \in Tasks |-> ListArg(<<>>)]
IdleCorpus ==
    /\ sys_stream = [t \in Tasks |-> ListArg(<<>>)]
    /\ ref_streams = [t \in Tasks |-> ListArg(<<>>)]
    /\ idx = [t \in Tasks |-> 0]
    /\ corpus_statistics = [t \in Tasks |-> <<>>]
FreshFrames ==
    /\ locals = [t \in Tasks |-> NoLocals]
    /\ result = [t \in Tasks |-> Pending]

\* ---------------------------------------------------- sentence_score alone
LaterRefs == {<<>>, <<"b">>}
ReferenceLists ==
    {<<r>> : r \in Strings} \cup {<<r, l>> : r \in Strings, l \in LaterRefs}
ReferenceArgs ==
    {ListArg(l) : l \in ReferenceLists} \cup {StrArg(r) : r \in Strings}

InitSentence ==
    /\ self \in Configs
    /\ op = [t \in Tasks |-> IF t = 1 THEN "sentence_score" ELSE "idle"]
    /\ pc = [t \in Tasks |-> IF t = 1 THEN "call" ELSE "idle"]
    /\ \E h \in Strings, r \in ReferenceArgs :
          /\ hypothesis = [t \in Tasks |-> IF t = 1 THEN h ELSE <<>>]
          /\ references = [t \in Tasks |-> IF t = 1 THEN r ELSE ListArg(<<>>)]
    /\ IdleCorpus
    /\ statistics = [t \in Tasks |-> <<>>]
    /\ chrf_args = [t \in Tasks |-> NoArgs]
    /\ FreshFrames

NextSentence == \E t \in Tasks : sentence_score(t)

SpecSentence == InitSentence /\ [][NextSentence]_vars

\* ------------------------------------------------------- claim vocabulary
\* The call reached compute_chrf: it returned a score or compute_chrf raised.
Scored(t) == pc[t] \in {"returned", "raised"} /\ result[t].exc \in {"none", "ValueError"}

Max(a, b) == IF a < b THEN b ELSE a

\* Occurrences of the n-gram g in line.
Occurrences(g, line) ==
    Cardinality({i \in 1..(Len(line) - Len(g) + 1) : SubSeq(line, i, i + Len(g) - 1) = g})

NGramsOf(line, n) == {SubSeq(line, i, i + n - 1) : i \in 1..(Len(line) - n + 1)}

RECURSIVE SumOfMin(_, _, _)
SumOfMin(grams, hyp, ref) ==
    IF grams = {} THEN 0
    ELSE LET g == CHOOSE x \in grams : TRUE
         IN  Min(Occurrences(g, hyp), Occurrences(g, ref))
                 + SumOfMin(grams \ {g}, hyp, ref)

\* No order of the vector has both a hypothesis and a reference n-gram.
NoEffectiveOrder(stats, order) ==
    \A n \in 1..order : ~(stats[3 * (n - 1) + 1] > 0 /\ stats[3 * (n - 1) + 2] > 0)

\* The tokenized hypothesis and first reference of sentence_score call t.
TokHyp(t) == tokenizer(self, hypothesis[t])
TokRef(t) == tokenizer(self, references[t].list[1])

SentenceScored(t) == op[t] = "sentence_score" /\ Scored(t)

\* C7: get_sentence_statistics writes at slot n the triplet
\* (max(0, Lh-n+1), max(0, Lr-n+1), sum over the n-grams g of both of
\* min(count_hyp(g), count_ref(g))): a multiset intersection ("aa" against
\* "aaa" at order 1 has 2 common unigrams), zero counts without an error at an
\* order longer than a sequence.
C7_Triplets ==
    /\ PairStatistics(<<"a", "a">>, <<"a", "a", "a">>, 1) = <<2, 3, 2>>
    /\ \A t \in Tasks : SentenceScored(t) =>
          /\ Len(statistics[t]) = 3 * self.order
          /\ \A n \in 1..self.order :
                /\ statistics[t][3 * (n - 1) + 1] = Max(0, Len(TokHyp(t)) - n + 1)
                /\ statistics[t][3 * (n - 1) + 2] = Max(0, Len(TokRef(t)) - n + 1)
                /\ statistics[t][3 * (n - 1) + 3] =
                      SumOfMin(NGramsOf(TokHyp(t), n) \cap NGramsOf(TokRef(t), n),
                               TokHyp(t), TokRef(t))

\* A repeated unigram common to both sides, under an order longer than both.
C7_Witness ==
    /\ SentenceScored(1)
    /\ self.order > Len(TokHyp(1)) /\ self.order > Len(TokRef(1))
    /\ statistics[1][3] = 2
    /\ statistics[1][3 * self.order] = 0

\* C6: a hypothesis of L characters, 1 <= L < max_order, against a reference
\* of at least L characters scores what it scores with max_order reduced to L:
\* the orders without n-grams are left out of the averages.
C6_EffectiveOrder ==
    \A t \in Tasks :
        (/\ SentenceScored(t)
         /\ 1 <= Len(TokHyp(t)) /\ Len(TokHyp(t)) < self.order
         /\ Len(TokRef(t)) >= Len(TokHyp(t)))
        => LET L == Len(TokHyp(t))
               reduced == [self EXCEPT !.order = L]
               stats == get_sentence_statistics(reduced, hypothesis[t], references[t].list)
               out == compute_chrf(stats, L, self.beta)
               loc == ChrfLocals(stats, L, self.beta)
           IN  /\ result[t].exc = out.exc
               /\ result[t].score = out.score
               /\ locals[t].score = loc.score
               /\ locals[t].avg_precision = loc.avg_precision
               /\ locals[t].avg_recall = loc.avg_recall
               /\ locals[t].effective_order = L

\* A one-character hypothesis with a partial match under max_order 3.
C6_Witness ==
    /\ SentenceScored(1)
    /\ result[1].exc = "none"
    /\ Len(TokHyp(1)) = 1 /\ Len(TokRef(1)) = 2 /\ self.order = 3
    /\ result[1].score # Zero /\ result[1].score # One

\* C3: sentence_score(s, [s]) of a non-empty s returns the score 1.0 under
\* every order and beta.
C3_Identity ==
    \A t \in Tasks :
        (/\ op[t] = "sentence_score" /\ pc[t] \in {"returned", "raised"}
         /\ references[t].kind = "list"
         /\ references[t].list = <<hypothesis[t]>>
         /\ hypothesis[t] # <<>>)
        => result[t].exc = "none" /\ result[t].score = One

\* C3 under an int beta alone: it fails on a hypothesis of whitespace when the
\* tokenizer removes whitespace.
IdentityUnderIntBeta ==
    \A t \in Tasks :
        (/\ op[t] = "sentence_score" /\ pc[t] \in {"returned", "raised"}
         /\ references[t].kind = "list"
         /\ references[t].list = <<hypothesis[t]>>
         /\ hypothesis[t] # <<>>
         /\ self.beta.isint)
        => result[t].exc = "none" /\ result[t].score = One

\* C3 under an int beta for a hypothesis with a character left after
\* tokenization: the score is 1.0.
IdentityOfTokens ==
    \A t \in Tasks :
        (/\ op[t] = "sentence_score" /\ pc[t] \in {"returned", "raised"}
         /\ references[t].kind = "list"
         /\ references[t].list = <<hypothesis[t]>>
         /\ TokHyp(t) # <<>>
         /\ self.beta.isint)
        => result[t].exc = "none" /\ result[t].score = One

\* C4 under an int beta: the score is 0.0.
DegenerateZeroUnderIntBeta ==
    \A t \in Tasks :
        (/\ op[t] = "sentence_score" /\ pc[t] \in {"returned", "raised"}
         /\ references[t].kind = "list"
         /\ self.beta.isint
         /\ NoEffectiveOrder(
               get_sentence_statistics(self, hypothesis[t], references[t].list),
               self.order))
        => result[t].exc = "none" /\ result[t].score = Zero

\* C4: with no order at which both sides have an n-gram, the call returns the
\* score 0.0 and raises nothing.
C4_DegenerateZero ==
    \A t \in Tasks :
        (/\ op[t] = "sentence_score" /\ pc[t] \in {"returned", "raised"}
         /\ references[t].kind = "list"
         /\ NoEffectiveOrder(
               get_sentence_statistics(self, hypothesis[t], references[t].list),
               self.order))
        => result[t].exc = "none" /\ result[t].score = Zero

\* ------------------------------------------------------ corpus_score alone
\* The sentences the corpora are made of: (hypothesis, reference).
Sentences ==
    {<< <<"a">>, <<"a">> >>,
     << <<"a", "a">>, <<"a", "a">> >>,
     << <<>>, <<"b", "b">> >>,
     << <<"b">>, <<"a", "a", "a">> >>,
     << <<"a", "a">>, <<"b", "b">> >>,
     << <<>>, <<>> >>,
     << <<"a", " ", "b">>, <<"a", "b">> >>,
     << <<"a", "b">>, <<"b", "a">> >>}

Column(corpus, j) == [i \in 1..Len(corpus) |-> corpus[i][j]]
DropLast(stream) == SubSeq(stream, 1, Len(stream) - 1)

\* The argument pairs of corpus_score: the two columns of a corpus, one of
\* them cut short by a line, or a bare str for either.
CorpusArgs ==
    LET corpora == SeqsUpTo(Sentences, MaxSent)
    IN       {<<ListArg(Column(c, 1)), ListArg(<<Column(c, 2)>>)>> : c \in corpora}
        \cup {<<ListArg(DropLast(Column(c, 1))), ListArg(<<Column(c, 2)>>)>> :
                 c \in corpora \ {<<>>}}
        \cup {<<ListArg(Column(c, 1)), ListArg(<<DropLast(Column(c, 2))>>)>> :
                 c \in corpora \ {<<>>}}
        \cup {<<StrArg(p[1]), StrArg(p[2])>> : p \in Sentences}
        \cup {<<StrArg(p[1]), ListArg(<<<<p[2]>>>>)>> : p \in Sentences}

IdleRest ==
    /\ hypothesis = [t \in Tasks |-> <<>>]
    /\ references = [t \in Tasks |-> ListArg(<<>>)]
    /\ idx = [t \in Tasks |-> 0]
    /\ corpus_statistics = [t \in Tasks |-> <<>>]
    /\ statistics = [t \in Tasks |-> <<>>]
    /\ chrf_args = [t \in Tasks |-> NoArgs]
    /\ FreshFrames

InitCorpus ==
    /\ self \in Configs
    /\ op = [t \in Tasks |-> IF t = 1 THEN "corpus_score" ELSE "idle"]
    /\ pc = [t \in Tasks |-> IF t = 1 THEN "call" ELSE "idle"]
    /\ \E a \in CorpusArgs :
          /\ sys_stream = [t \in Tasks |-> IF t = 1 THEN a[1] ELSE ListArg(<<>>)]
          /\ ref_streams = [t \in Tasks |-> IF t = 1 THEN a[2] ELSE ListArg(<<>>)]
    /\ IdleRest

corpus_score(t) ==
    \/ corpus_score_begin(t)
    \/ corpus_score_next(t)
    \/ corpus_score_raise(t)
    \/ corpus_score_return(t)

NextCorpus == \E t \in Tasks : corpus_score(t)

SpecCorpus == InitCorpus /\ [][NextCorpus]_vars

\* --------------------------------------------- the calls as pure functions
\* The element-wise sum of two vectors of one length.
VecSum(u, v) == [i \in 1..Len(u) |-> u[i] + v[i]]

\* The i-th references of the reference streams.
RefsAt(streams, i) == [j \in 1..Len(streams) |-> streams[j][i]]

\* The sum of the statistics of the first k sentences, from the zero vector.
RECURSIVE PooledStatistics(_, _, _, _)
PooledStatistics(slf, sys, streams, k) ==
    IF k = 0 THEN [i \in 1..(3 * slf.order) |-> 0]
    ELSE VecSum(PooledStatistics(slf, sys, streams, k - 1),
                get_sentence_statistics(slf, sys[k], RefsAt(streams, k)))

SameLengths(sys, streams) == \A j \in 1..Len(streams) : Len(streams[j]) = Len(sys)

\* What corpus_score hands back for the lists sys and streams, run alone.
CorpusAlone(slf, sys, streams) ==
    IF SameLengths(sys, streams)
    THEN compute_chrf(PooledStatistics(slf, sys, streams, Len(sys)), slf.order, slf.beta)
    ELSE Raised("EOFError")

\* What sentence_score hands back for the list refs, run alone.
SentenceAlone(slf, hyp, refs) ==
    compute_chrf(get_sentence_statistics(slf, hyp, refs), slf.order, slf.beta)

\* The arguments as lists, a bare str read as corpus_score reads it.
SysList(t) == IF sys_stream[t].kind = "str" THEN <<sys_stream[t].str>> ELSE sys_stream[t].list
RefLists(t) ==
    IF ref_streams[t].kind = "str" THEN <<<<ref_streams[t].str>>>> ELSE ref_streams[t].list

CorpusFinished(t) == op[t] = "corpus_score" /\ pc[t] \in {"returned", "raised"}
CorpusScored(t) == op[t] = "corpus_score" /\ Scored(t)

\* The combined score of a sentence scored on its own, before it is wrapped.
SentenceValue(slf, hyp, ref) ==
    ChrfLocals(get_sentence_statistics(slf, hyp, <<ref>>), slf.order, slf.beta).score

NoCommonNGram(slf, hyp, ref) ==
    LET stats == get_sentence_statistics(slf, hyp, <<ref>>)
    IN  \A n \in 1..slf.order : stats[3 * (n - 1) + 3] = 0

\* Sentence i of call t is an exact match scoring 1.0 and sentence j has no
\* common n-gram and scores 0.0.
OneAndZero(t, i, j) ==
    LET sys == SysList(t)
        ref == RefLists(t)[1]
    IN  /\ sys[i] = ref[i]
        /\ SentenceValue(self, sys[i], ref[i]) = One
        /\ NoCommonNGram(self, sys[j], ref[j])
        /\ SentenceValue(self, sys[j], ref[j]) = Zero

TokLen(line) == Len(tokenizer(self, line))

\* The pooled score of call t is what compute_chrf gives on the sum of the
\* sentence vectors.
Pooled(t) ==
    LET sum == PooledStatistics(self, SysList(t), RefLists(t), Len(SysList(t)))
    IN  /\ corpus_statistics[t] = sum
        /\ result[t] = compute_chrf(sum, self.order, self.beta)
        /\ locals[t] = ChrfLocals(sum, self.order, self.beta)

TwoSentences(t) ==
    /\ CorpusScored(t)
    /\ Len(SysList(t)) = 2
    /\ Len(RefLists(t)) = 1

\* C1 as stated: corpus_score on streams of equal length returns what
\* compute_chrf gives on the element-wise sum of the sentence vectors, and a
\* two-sentence corpus of an exact match (1.0) and a sentence without a common
\* n-gram (0.0), the two of different lengths, never scores 0.5.
C1_AsStated ==
    \A t \in Tasks : CorpusScored(t) =>
        /\ Pooled(t)
        /\ \A i, j \in 1..2 :
              (/\ TwoSentences(t) /\ i # j /\ OneAndZero(t, i, j)
               /\ TokLen(SysList(t)[j]) # TokLen(SysList(t)[i])
               /\ TokLen(RefLists(t)[1][j]) # TokLen(SysList(t)[i])
               /\ result[t].exc = "none")
              => result[t].score # Half

\* C1 as amended: the same, the 0.5 excluded only when the hypothesis and the
\* reference of the sentence without a common n-gram have one length, which is
\* not the length of the exact match.
C1_PooledNotMean ==
    \A t \in Tasks : CorpusScored(t) =>
        /\ Pooled(t)
        /\ \A i, j \in 1..2 :
              (/\ TwoSentences(t) /\ i # j /\ OneAndZero(t, i, j)
               /\ TokLen(SysList(t)[j]) = TokLen(RefLists(t)[1][j])
               /\ TokLen(SysList(t)[j]) # TokLen(SysList(t)[i]))
              => locals[t].score # Half

\* A returned two-sentence corpus of an exact match of one character and a
\* two-character sentence without a common n-gram.
C1_Witness ==
    /\ TwoSentences(1)
    /\ result[1].exc = "none"
    /\ OneAndZero(1, 1, 2)
    /\ TokLen(SysList(1)[1]) = 1
    /\ TokLen(SysList(1)[2]) = 2 /\ TokLen(RefLists(1)[1][2]) = 2
    /\ result[1].score = <<1, 3>>

\* C8, the state part: once the walk has begun the running vector has
\* 3 x max_order entries, none negative, every triplet with
\* common <= min(hyp, ref); so has every sentence vector.
WellFormed(v, order) ==
    /\ Len(v) = 3 * order
    /\ \A i \in 1..Len(v) : v[i] \in Nat
    /\ \A n \in 1..order :
          /\ v[3 * (n - 1) + 3] <= v[3 * (n - 1) + 1]
          /\ v[3 * (n - 1) + 3] <= v[3 * (n - 1) + 2]

Walking(t) == op[t] = "corpus_score" /\ pc[t] \in {"loop", "returned", "raised"}

VectorsWellFormed ==
    \A t \in Tasks : Walking(t) =>
        /\ WellFormed(corpus_statistics[t], self.order)
        /\ (idx[t] = 0 => corpus_statistics[t] = [i \in 1..(3 * self.order) |-> 0])
        /\ (idx[t] > 0 => WellFormed(statistics[t], self.order))

\* C8, the step part: no entry of the running vector decreases.
NeverDecreases ==
    \A t \in Tasks : (Walking(t) /\ Walking(t)') =>
        \A i \in 1..Len(corpus_statistics[t]) :
            corpus_statistics[t][i] <= corpus_statistics'[t][i]

\* C8: at every step of the corpus walk the running vector and the sentence
\* vectors are well formed, and the entries of the running vector never decrease.
C8_RunningVector == [](VectorsWellFormed) /\ [][NeverDecreases]_vars

\* Two sentences added, the second with fewer n-grams than the first.
C8_Witness ==
    /\ Walking(1)
    /\ idx[1] = 2
    /\ statistics[1][1] > 0
    /\ statistics[1][1] < corpus_statistics[1][1] - statistics[1][1]
    /\ corpus_statistics[1][3] > 0

\* --------------------------------------- several references, any lengths
RefLines == {<<"a">>, <<"b", "b">>}
RefStreams == SeqsUpTo(RefLines, MaxSent)
RefConfigs ==
    {CHRF(FALSE, o, b, FALSE, 1) : o \in Orders, b \in {IntBeta(BETA), FloatBeta(1, 2)}}

InitRefs ==
    /\ self \in RefConfigs
    /\ pc = [t \in Tasks |-> IF t = 1 THEN "call" ELSE "idle"]
    /\ \/ /\ op = [t \in Tasks |-> IF t = 1 THEN "corpus_score" ELSE "idle"]
          /\ \E s \in RefStreams, r \in SeqsOfLen(RefStreams, 1) \cup SeqsOfLen(RefStreams, 2) :
                /\ sys_stream = [t \in Tasks |-> ListArg(IF t = 1 THEN s ELSE <<>>)]
                /\ ref_streams = [t \in Tasks |-> ListArg(IF t = 1 THEN r ELSE <<>>)]
          /\ hypothesis = [t \in Tasks |-> <<>>]
          /\ references = [t \in Tasks |-> ListArg(<<>>)]
       \/ /\ op = [t \in Tasks |-> IF t = 1 THEN "sentence_score" ELSE "idle"]
          /\ \E h \in RefLines, r \in SeqsOfLen(RefLines, 1) \cup SeqsOfLen(RefLines, 2) :
                /\ hypothesis = [t \in Tasks |-> IF t = 1 THEN h ELSE <<>>]
                /\ references = [t \in Tasks |-> ListArg(IF t = 1 THEN r ELSE <<>>)]
          /\ sys_stream = [t \in Tasks |-> ListArg(<<>>)]
          /\ ref_streams = [t \in Tasks |-> ListArg(<<>>)]
    /\ idx = [t \in Tasks |-> 0]
    /\ corpus_statistics = [t \in Tasks |-> <<>>]
    /\ statistics = [t \in Tasks |-> <<>>]
    /\ chrf_args = [t \in Tasks |-> NoArgs]
    /\ FreshFrames

NextRefs == \E t \in Tasks : sentence_score(t) \/ corpus_score(t)

SpecRefs == InitRefs /\ [][NextRefs]_vars

RECURSIVE MinOf(_)
MinOf(S) ==
    LET x == CHOOSE y \in S : TRUE
    IN  IF S = {x} THEN x ELSE Min(x, MinOf(S \ {x}))

\* The length of the shortest of the streams of call t.
ShortestLen(t) == MinOf({Len(fhs(t)[k]) : k \in 1..Len(fhs(t))})

\* C2: corpus_score ends in EOFError exactly when the streams (the later
\* reference streams too) do not all have one length; it raises at the first
\* index at which a stream is exhausted, hands back no score, and while the
\* walk goes on no tuple past that index has been read.
C2_LengthMismatch ==
    \A t \in Tasks :
        /\ CorpusFinished(t) =>
              /\ result[t].exc = "EOFError" <=> ~SameLengths(SysList(t), RefLists(t))
              /\ result[t].exc = "EOFError" =>
                    /\ pc[t] = "raised"
                    /\ result[t].score = NoScore
                    /\ idx[t] = ShortestLen(t)
        /\ (op[t] = "corpus_score" /\ pc[t] = "loop") => idx[t] <= ShortestLen(t)

\* The second reference stream alone is short: EOFError after one full tuple.
C2_Witness ==
    /\ CorpusFinished(1)
    /\ result[1].exc = "EOFError"
    /\ Len(RefLists(1)) = 2
    /\ Len(SysList(1)) = 2 /\ Len(RefLists(1)[1]) = 2 /\ Len(RefLists(1)[2]) = 1
    /\ idx[1] = 1
    /\ corpus_statistics[1][1] > 0

\* C5: a call hands back what it hands back with the first reference alone:
\* sentence_score(h, R) = sentence_score(h, [R[0]]), and corpus_score with
\* streams of one length = corpus_score with the first reference stream only.
C5_FirstReferenceOnly ==
    \A t \in Tasks :
        /\ SentenceScored(t) =>
              /\ result[t] = SentenceAlone(self, hypothesis[t], <<references[t].list[1]>>)
              /\ statistics[t] =
                    get_sentence_statistics(self, hypothesis[t], <<references[t].list[1]>>)
        /\ CorpusScored(t) =>
              /\ result[t] = CorpusAlone(self, SysList(t), <<RefLists(t)[1]>>)
              /\ corpus_statistics[t] =
                    PooledStatistics(self, SysList(t), <<RefLists(t)[1]>>, Len(SysList(t)))

\* A returned corpus call whose second reference stream differs from the first
\* in every line and would score differently.
C5_Witness ==
    /\ CorpusScored(1)
    /\ result[1].exc = "none"
    /\ Len(RefLists(1)) = 2
    /\ Len(SysList(1)) = 2
    /\ \A i \in 1..2 : RefLists(1)[1][i] # RefLists(1)[2][i]
    /\ result[1] # CorpusAlone(self, SysList(1), <<RefLists(1)[2]>>)

\* ------------------------------------------------ two calls on one instance
TwoHyps == {<<"a">>, <<"b", "b">>}
TwoRefs == {<<"a">>}
TwoConfigs == {CHRF(FALSE, o, IntBeta(BETA), FALSE, 1) : o \in Orders}

\* A call: its method and its arguments.
TwoCalls ==
         {[op |-> "corpus_score", hyp |-> <<>>, refs |-> <<>>, sys |-> s, streams |-> <<r>>] :
             s \in SeqsUpTo(TwoHyps, MaxSent), r \in SeqsUpTo(TwoRefs, MaxSent)}
    \cup {[op |-> "sentence_score", hyp |-> h, refs |-> <<r>>, sys |-> <<>>, streams |-> <<>>] :
             h \in TwoHyps, r \in TwoRefs}

InitTwo ==
    /\ self \in TwoConfigs
    /\ pc = [t \in Tasks |-> "call"]
    /\ \E c \in [Tasks -> TwoCalls] :
          /\ op = [t \in Tasks |-> c[t].op]
          /\ hypothesis = [t \in Tasks |-> c[t].hyp]
          /\ references = [t \in Tasks |-> ListArg(c[t].refs)]
          /\ sys_stream = [t \in Tasks |-> ListArg(c[t].sys)]
          /\ ref_streams = [t \in Tasks |-> ListArg(c[t].streams)]
    /\ idx = [t \in Tasks |-> 0]
    /\ corpus_statistics = [t \in Tasks |-> <<>>]
    /\ statistics = [t \in Tasks |-> <<>>]
    /\ chrf_args = [t \in Tasks |-> NoArgs]
    /\ FreshFrames

NextTwo == \E t \in Tasks : sentence_score(t) \/ corpus_score(t)

SpecTwo == InitTwo /\ [][NextTwo]_vars

\* What call t hands back when it runs alone.
Alone(t) ==
    IF op[t] = "sentence_score"
    THEN SentenceAlone(self, hypothesis[t], references[t].list)
    ELSE CorpusAlone(self, SysList(t), RefLists(t))

FinishedAsAlone ==
    \A t \in Tasks : pc[t] \in {"returned", "raised"} => result[t] = Alone(t)

\* C10: under every interleaving of two calls on one instance each call hands
\* back what it hands back alone (the length-mismatch error too), and no step
\* writes the instance.
C10_Independent == [](FinishedAsAlone) /\ [][self' = self]_vars

\* Both calls are corpus walks that have added a sentence and not finished,
\* and then both finish, one of them in EOFError.
C10_Witness ==
    /\ \A t \in Tasks : op[t] = "corpus_score" /\ pc[t] \in {"returned", "raised"}
    /\ result[1].exc = "EOFError" /\ idx[1] = 1
    /\ result[2].exc = "none" /\ idx[2] = 2
    /\ result[2].score # Zero

\* ------------------------------------------------- compute_chrf called alone
StatOrders == {1, 2}
Triplets ==
    {<<h, r, c>> : h \in 0..MaxStat, r \in 0..MaxStat, c \in 0..MaxStat}
ValidTriplets == {x \in Triplets : x[3] <= x[1] /\ x[3] <= x[2]}

RECURSIVE Flatten(_)
Flatten(seq) == IF seq = <<>> THEN <<>> ELSE Head(seq) \o Flatten(Tail(seq))

InitBeta ==
    /\ self = CHRF(FALSE, ORDER, IntBeta(BETA), FALSE, 1)
    /\ op = [t \in Tasks |-> "compute_chrf"]
    /\ pc = [t \in Tasks |-> "call"]
    /\ \E o \in StatOrders :
          /\ \E v \in SeqsOfLen(ValidTriplets, o) :
                statistics = [t \in Tasks |-> Flatten(v)]
          /\ \E b \in [Tasks -> Betas] :
                chrf_args = [t \in Tasks |-> [order |-> o, beta |-> b[t]]]
    /\ IdleSentence
    /\ IdleCorpus
    /\ FreshFrames

NextBeta == \E t \in Tasks : compute_chrf_call(t)

SpecBeta == InitBeta /\ [][NextBeta]_vars

BothComputed ==
    /\ \A t \in Tasks : op[t] = "compute_chrf" /\ pc[t] \in {"returned", "raised"}
    /\ FLess(BetaValue(chrf_args[1].beta), BetaValue(chrf_args[2].beta))

====
